---- MODULE Spec2Model ----
(***************************************************************************)
(* Smart-SDLC static-analysis pipeline: the four engines (doc_generator,   *)
(* code_review, bug_predictor, calculate_code_metrics) and the report      *)
(* assembler generate_project_report with its text fallback.               *)
(*                                                                         *)
(* A source file is modelled by what ast.parse makes of it: either no      *)
(* tree (the text does not parse) or a table of nodes, each naming its     *)
(* parent (0 is the Module node).  Children are in table order, so the     *)
(* table is a preorder-compatible listing of the tree.                     *)
(***************************************************************************)
EXTENDS Integers, Sequences, FiniteSets, TLC

\* ------------------------------------------------------------------ bounds
MaxNodes == 2
MaxFiles == 2
\* A max_file_size set in config.json
SmallFileSize == 2

\* ------------------------------------------------------ program constants
\* code_review.py: len(node.body) > 20
LongBody == 20
\* code_review.py: softmax score > 0.7, in tenths
ScoreThreshold == 7
\* app.py, smartsdlc_colab.py, smartsdlc_gradio_shared.py: max_file_size
DefaultMaxFileSize == 1048576

\* ---------------------------------------------------------------- helpers
Range(s) == {s[i] : i \in DOMAIN s}

Idx(s) == [i \in 1..Len(s) |-> i]

RECURSIVE Concat(_)
Concat(ss) == IF ss = <<>> THEN <<>> ELSE Head(ss) \o Concat(Tail(ss))

Reverse(s) == [i \in 1..Len(s) |-> s[Len(s) + 1 - i]]

\* --------------------------------------------------------------- the tree
\* Identifier names that occur as parameters and as Name references.
Params == {"a", "b"}
ParamOrder == <<"a", "b">>

Containers == {"FunctionDef", "ClassDef", "While", "If", "For", "Try"}

\* One node without its position.  Fields:
\*   type  the ast class
\*   args  FunctionDef: node.args.args as a set of names
\*   doc   FunctionDef/ClassDef: what the first body statement is:
\*         "none" no string expression, "empty" a string that
\*         ast.get_docstring cleans to "", "text" a non-empty docstring,
\*         "generated" the block add_docstrings inserted
\*   pad   FunctionDef/ClassDef: the number of direct body statements that
\*         are neither the docstring nor a node of the table
\*   id    Name: the identifier; Call: the callee identifier;
\*         While: the test ("True" or "cond"); BinOp: the right operand of
\*         the division ("zero" or "var")
\*   line  "own": the node starts a line of its own; "same": a simple
\*         statement written after a semicolon on the line of the simple
\*         statement before it
Mk(type, args, doc, pad, id) ==
    [type |-> type, args |-> args, doc |-> doc, pad |-> pad, id |-> id,
     line |-> "own"]

OnSameLine(shape) == [shape EXCEPT !.line = "same"]

SimpleStatements == {"Name", "Call", "BinOp", "Break"}

FunctionShapes ==
    {Mk("FunctionDef", a, d, p, "") :
        a \in {{}, {"a", "b"}}, d \in {"none", "text"}, p \in {1, LongBody}}
    \cup {Mk("FunctionDef", {}, "empty", 1, "")}

ClassShapes == {Mk("ClassDef", {}, d, 1, "") : d \in {"none", "text"}}

OtherShapes ==
    {Mk("Name", {}, "", 0, x) : x \in Params}
    \cup {Mk("While", {}, "", 0, t) : t \in {"True", "cond"}}
    \cup {Mk("Call", {}, "", 0, f) : f \in {"eval", "exec", "print"}}
    \cup {Mk("BinOp", {}, "", 0, r) : r \in {"zero", "var"}}
    \cup {Mk(c, {}, "", 0, "") : c \in {"If", "For", "Try", "Break"}}
    \cup {OnSameLine(Mk("Call", {}, "", 0, f)) : f \in {"eval", "exec"}}
    \cup {OnSameLine(Mk("BinOp", {}, "", 0, "zero"))}

Shapes == FunctionShapes \cup ClassShapes \cup OtherShapes

At(shape, parent) ==
    [type |-> shape.type, args |-> shape.args, doc |-> shape.doc,
     pad |-> shape.pad, id |-> shape.id, line |-> shape.line,
     parent |-> parent]

\* A table is a tree when every node hangs under the module (0) or under
\* an earlier compound statement, and a node that shares its line follows
\* a simple statement of the same body.
IsTree(t) ==
    \A k \in 1..Len(t) :
        /\ t[k].parent < k
        /\ t[k].parent > 0 => t[t[k].parent].type \in Containers
        /\ t[k].line = "same" =>
              /\ k > 1
              /\ t[k].type \in SimpleStatements
              /\ t[k - 1].type \in SimpleStatements
              /\ t[k - 1].parent = t[k].parent

\* The table of the nodes f[1], f[2], ... under the parents par[1], par[2], ...
Table(f, par) == [k \in DOMAIN f |-> At(f[k], par[k])]

\* ------------------------------------------------------------ file contents
\* What open(path).read() followed by ast.parse gives for a path.
\*   status "missing"       open() raises (no such file)
\*          "syntax_error"  the text is read, ast.parse raises
\*          "ok"            the text parses to tree
NoFile == [status |-> "missing", tree |-> <<>>]
BadSource == [status |-> "syntax_error", tree |-> <<>>]
Src(t) == [status |-> "ok", tree |-> t]

\* ------------------------------------------------------------------ ast.walk
Children(t, p) == SelectSeq(Idx(t), LAMBDA i : t[i].parent = p)

\* ast.walk: breadth first, a deque seeded with the start node.
RECURSIVE BFS(_, _)
BFS(t, todo) ==
    IF todo = <<>> THEN <<>>
    ELSE <<Head(todo)>> \o BFS(t, Tail(todo) \o Children(t, Head(todo)))

\* ast.walk(tree) without the Module node itself, which no engine matches.
Walk(t) == BFS(t, Children(t, 0))
\* ast.walk(node): the node and everything below it.
WalkNode(t, i) == BFS(t, <<i>>)

\* Only what the author wrote counts as documentation: the generated block
\* is not recognised.
NoDocstring_GeneratedIgnored(n) == n.doc # "text"

\* ast.get_docstring(node) is falsy: no docstring, or one that cleans to "".
NoDocstring(n) == n.doc \in {"none", "empty"}

\* Every statement below the definition counted, at any depth.
BodyLen_Deep(t, i) ==
    (IF t[i].doc = "none" THEN 0 ELSE 1) + t[i].pad + Len(WalkNode(t, i)) - 1

\* len(node.body): the docstring expression is a body statement too.
BodyLen(t, i) ==
    (IF t[i].doc = "none" THEN 0 ELSE 1) + t[i].pad + Len(Children(t, i))

\* Iteration order of a set of str: fixed within one process, it depends on
\* the process's string-hash seed.
SetOrder(S, seed) ==
    SelectSeq(IF seed = 0 THEN ParamOrder ELSE Reverse(ParamOrder),
              LAMBDA x : x \in S)

\* ----------------------------------------------------------------- findings
\* One entry of a findings list.  kind is the message template, the other
\* fields are what the template interpolates.
Finding(kind, func, names, line, prim) ==
    [kind |-> kind, func |-> func, names |-> names, line |-> line,
     prim |-> prim]

\* "Function '<f>' has unused arguments: <names>"
UnusedArgs(f, names) == Finding("unused_arguments", f, names, 0, "")
\* "Function '<f>' is too long; consider refactoring."
TooLong(f) == Finding("too_long", f, <<>>, 0, "")
\* "CodeBERT detected potential quality issues; review for best practices."
QualityIssues == Finding("quality_issues", 0, <<>>, 0, "")
\* "No significant issues found."
NoIssues == Finding("no_issues", 0, <<>>, 0, "")
\* "Error during code review: <exception>"
ReviewError == Finding("review_error", 0, <<>>, 0, "")
\* "Potential infinite loop at line <n>: 'while True' without break."
InfiniteLoop(line) == Finding("infinite_loop", 0, <<>>, line, "")
\* "Use of unsafe function '<prim>' at line <n>; consider safer alternatives."
UnsafeCall(prim, line) == Finding("unsafe_call", 0, <<>>, line, prim)
\* "Potential division by zero at line <n>."
DivisionByZero(line) == Finding("division_by_zero", 0, <<>>, line, "")
\* "No potential bugs detected."
NoBugs == Finding("no_bugs", 0, <<>>, 0, "")
\* "Error during bug prediction: <exception>"
BugError == Finding("bug_error", 0, <<>>, 0, "")

\* node.name: a definition is named by its table index.
NameOf(t, i) == i
\* node.lineno: the nodes of the table take one line after the other, but
\* for those that share the line of the node before them.
LineOf(t, i) == Cardinality({k \in 1..i : t[k].line = "own"})

\* ------------------------------------------------------------- code_review
\* The outcome of the CodeBERT call: a negative number when tokenizer or
\* model raises, otherwise the softmax score of class 1 in tenths.
ModelOutcomes == {0 - 1, ScoreThreshold, ScoreThreshold + 1}

\* Only the names of the function's own statements, none of a nested body.
UsedVars_OwnBody(t, i) ==
    {t[j].id : j \in {k \in 1..Len(t) : t[k].type = "Name" /\ t[k].parent = i}}

UsedVars(t, i) ==
    {t[j].id : j \in {k \in Range(WalkNode(t, i)) : t[k].type = "Name"}}

\* The body of the loop over ast.walk(tree) for one node.
RuleComments(t, i, seed) ==
    IF t[i].type # "FunctionDef" THEN <<>>
    ELSE LET unused_args == t[i].args \ UsedVars(t, i)
         IN  (IF unused_args # {}
              THEN <<UnusedArgs(NameOf(t, i), SetOrder(unused_args, seed))>>
              ELSE <<>>)
             \o (IF BodyLen(t, i) > LongBody
                 THEN <<TooLong(NameOf(t, i))>>
                 ELSE <<>>)

RuleBasedComments(t, seed) ==
    LET w == Walk(t)
    IN  Concat([k \in 1..Len(w) |-> RuleComments(t, w[k], seed)])

\* The list returned as it is, also when it is empty.
OrSentinel_Omitted(list, sentinel) == list

OrSentinel(list, sentinel) == IF list = <<>> THEN <<sentinel>> ELSE list

\* A score above the threshold replaces the rule-based comments.
review_code_ScoreReplaces(src, m, seed) ==
    IF src.status # "ok" THEN <<ReviewError>>
    ELSE IF m < 0 THEN <<ReviewError>>
    ELSE IF m > ScoreThreshold THEN <<QualityIssues>>
    ELSE IF RuleBasedComments(src.tree, seed) = <<>> THEN <<NoIssues>>
    ELSE RuleBasedComments(src.tree, seed)

review_code(src, m, seed) ==
    IF src.status # "ok" THEN <<ReviewError>>
    ELSE IF m < 0 THEN <<ReviewError>>
    ELSE OrSentinel(RuleBasedComments(src.tree, seed)
                      \o (IF m > ScoreThreshold THEN <<QualityIssues>>
                          ELSE <<>>),
                    NoIssues)

\* ----------------------------------------------------------- bug_predictor
\* A loop with a break directly in its body is not reported.
BugsAt_BreakAware(t, i) ==
    (IF t[i].type = "While" /\ t[i].id = "True"
        /\ ~\E j \in 1..Len(t) : t[j].parent = i /\ t[j].type = "Break"
     THEN <<InfiniteLoop(LineOf(t, i))>> ELSE <<>>)
    \o (IF t[i].type = "Call" /\ t[i].id \in {"eval", "exec"}
        THEN <<UnsafeCall(t[i].id, LineOf(t, i))>> ELSE <<>>)
    \o (IF t[i].type = "BinOp" /\ t[i].id = "zero"
        THEN <<DivisionByZero(LineOf(t, i))>> ELSE <<>>)

\* The body of the loop over ast.walk(tree) for one node.
BugsAt(t, i) ==
    (IF t[i].type = "While" /\ t[i].id = "True"
     THEN <<InfiniteLoop(LineOf(t, i))>> ELSE <<>>)
    \o (IF t[i].type = "Call" /\ t[i].id \in {"eval", "exec"}
        THEN <<UnsafeCall(t[i].id, LineOf(t, i))>> ELSE <<>>)
    \o (IF t[i].type = "BinOp" /\ t[i].id = "zero"
        THEN <<DivisionByZero(LineOf(t, i))>> ELSE <<>>)

\* One finding per line: a finding on a line that already has one is
\* dropped.
predict_bugs_OnePerLine(src) ==
    IF src.status # "ok" THEN <<BugError>>
    ELSE LET w == Walk(src.tree)
             all == Concat([k \in 1..Len(w) |-> BugsAt(src.tree, w[k])])
             first(k) == \A j \in 1..(k - 1) : all[j].line # all[k].line
             kept == SelectSeq(Idx(all), first)
         IN  OrSentinel([k \in 1..Len(kept) |-> all[kept[k]]], NoBugs)

predict_bugs(src) ==
    IF src.status # "ok" THEN <<BugError>>
    ELSE LET w == Walk(src.tree)
         IN  OrSentinel(Concat([k \in 1..Len(w) |-> BugsAt(src.tree, w[k])]),
                        NoBugs)

\* ----------------------------------------------------------- doc_generator
\* node.body.insert(0, doc_node): the generated block becomes the first
\* statement; a docstring that cleaned to "" stays behind it as a plain
\* statement.
InsertDocstring(n) ==
    [n EXCEPT !.doc = "generated",
              !.pad = IF n.doc = "none" THEN n.pad ELSE n.pad + 1]

\* for node in tree.body: only the statements of the module body are visited.
Documented(t) ==
    [i \in 1..Len(t) |->
        IF t[i].parent = 0 /\ t[i].type \in {"FunctionDef", "ClassDef"}
           /\ NoDocstring(t[i])
        THEN InsertDocstring(t[i])
        ELSE t[i]]

\* ast.unparse: the text written parses back to the tree, in the layout of
\* ast.unparse and without the comments, so it is another text than the one
\* an author wrote for the same tree.  The empty module is the empty text.
Unparse(t) ==
    IF t = <<>> THEN Src(<<>>)
    ELSE [status |-> "ok", tree |-> t, form |-> "ast.unparse"]

\* How open(output_path, "w") and file.write end: "ok"; "open_fails", the
\* file is not opened; "write_fails", the file is opened, which empties it,
\* and the text does not reach it.
WriteOutcomes == {"ok", "open_fails", "write_fails"}

\* The output file opened before the input is read and parsed.
add_docstrings_OpenFirst(src, old, wr) ==
    IF wr = "open_fails" THEN [ok |-> FALSE, out |-> old]
    ELSE IF src.status # "ok" \/ wr = "write_fails"
    THEN [ok |-> FALSE, out |-> Src(<<>>)]
    ELSE [ok |-> TRUE, out |-> Unparse(Documented(src.tree))]

\* add_docstrings(file_path, output_path): src is what file_path holds, old
\* what output_path holds, wr how the writing ends.  Returns the boolean and
\* what output_path holds afterwards.
add_docstrings(src, old, wr) ==
    IF src.status # "ok" THEN [ok |-> FALSE, out |-> old]
    ELSE IF wr = "open_fails" THEN [ok |-> FALSE, out |-> old]
    ELSE IF wr = "write_fails" THEN [ok |-> FALSE, out |-> Src(<<>>)]
    ELSE [ok |-> TRUE, out |-> Unparse(Documented(src.tree))]

\* ------------------------------------------------- calculate_code_metrics
RECURSIVE Sum(_)
Sum(s) == IF s = <<>> THEN 0 ELSE Head(s) + Sum(Tail(s))

Metrics(l, f, c, x) ==
    [line_count |-> l, function_count |-> f, class_count |-> c,
     complexity |-> x]

\* len(code.splitlines()): every node that starts a line, every docstring
\* and every other statement takes one line of the text.
LineCount(t) ==
    Sum([i \in 1..Len(t) |->
            (IF t[i].line = "own" THEN 1 ELSE 0) + t[i].pad
               + (IF t[i].doc \in {"none", ""} THEN 0 ELSE 1)])

\* Only the branching statements directly in the function's body.
DecisionPoints_Direct(t, i) ==
    Cardinality({k \in 1..Len(t) :
                    /\ t[k].parent = i
                    /\ t[k].type \in {"If", "For", "While", "Try"}})

DecisionPoints(t, i) ==
    Cardinality({k \in Range(WalkNode(t, i)) :
                    t[k].type \in {"If", "For", "While", "Try"}})

\* The baseline path counted for a file that could not be analysed too.
calculate_code_metrics_BaselineKept(src) ==
    IF src.status # "ok" THEN Metrics(0, 0, 0, 1)
    ELSE LET t == src.tree
         IN  Metrics(
               LineCount(t),
               Cardinality({i \in 1..Len(t) : t[i].type = "FunctionDef"}),
               Cardinality({i \in 1..Len(t) : t[i].type = "ClassDef"}),
               Sum([i \in 1..Len(t) |->
                      IF t[i].type = "FunctionDef"
                      THEN DecisionPoints(t, i) ELSE 0]) + 1)

calculate_code_metrics(src) ==
    IF src.status # "ok" THEN Metrics(0, 0, 0, 0)
    ELSE LET t == src.tree
         IN  Metrics(
               LineCount(t),
               Cardinality({i \in 1..Len(t) : t[i].type = "FunctionDef"}),
               Cardinality({i \in 1..Len(t) : t[i].type = "ClassDef"}),
               Sum([i \in 1..Len(t) |->
                      IF t[i].type = "FunctionDef"
                      THEN DecisionPoints(t, i) ELSE 0]) + 1)

\* ======================================================= report_generator
\* A path: the directory it is under (area "upload" the saved upload, "temp"
\* the directory of tempfile.mkdtemp, "out" output_dir), the sub-directory
\* inside an extracted archive, and the base name.
Path(area, dir, base) == [area |-> area, dir |-> dir, base |-> base]

\* f"doc_{file_base}"
DocName(base) ==
    CASE base = "x.py" -> "doc_x.py"
      [] base = "doc_x.py" -> "doc_doc_x.py"
      [] OTHER -> "doc_temp_input.py"

\* The file contents a report request is run on.
UndocumentedFunction == <<At(Mk("FunctionDef", {"a", "b"}, "none", 1, ""), 0)>>
UnsafeLoop ==
    <<At(Mk("While", {}, "", 0, "True"), 0),
      At(Mk("Call", {}, "", 0, "eval"), 1)>>
ReportSources == {BadSource, Src(UndocumentedFunction), Src(UnsafeLoop)}

\* The .py members of an archive in the order os.walk lists them after
\* extraction: the files of the archive's root, then those of its
\* sub-directory; the order inside one directory is the file system's.
MemberPaths ==
    {Path("temp", d, b) : d \in {"", "pkg"}, b \in {"x.py", "doc_x.py"}}
Member(path, content) == [path |-> path, content |-> content]

WalkOrdered(ms) ==
    /\ \A j, k \in 1..Len(ms) : j # k => ms[j].path # ms[k].path
    /\ \A j, k \in 1..Len(ms) :
          j < k => ~(ms[j].path.dir = "pkg" /\ ms[k].path.dir = "")

RECURSIVE MembersOfLen(_)
MembersOfLen(n) ==
    IF n = 0 THEN {<<>>}
    ELSE {Append(ms, Member(p, c)) :
            ms \in MembersOfLen(n - 1), p \in MemberPaths, c \in ReportSources}

Archives ==
    {ms \in UNION {MembersOfLen(n) : n \in 0..MaxFiles} : WalkOrdered(ms)}

\* What is uploaded: the extension of file_name, how zipfile takes the
\* archive ("ok", "bad" for zipfile.BadZipFile, "error" for any other
\* exception of ZipFile or extractall) and the members.
UploadedFile == Path("upload", "", "temp_input.py")

Uploads ==
    {[ext |-> ".py", zip |-> "ok", members |-> <<Member(UploadedFile, c)>>] :
        c \in ReportSources}
    \cup {[ext |-> ".zip", zip |-> "ok", members |-> ms] : ms \in Archives}
    \cup {[ext |-> ".zip", zip |-> z, members |-> <<>>] :
             z \in {"bad", "error"}}
    \cup {[ext |-> ".txt", zip |-> "ok", members |-> <<>>]}

\* --------------------------------------------------------------- file system
Read(fs, path) == IF path \in DOMAIN fs THEN fs[path] ELSE NoFile
WriteFile(fs, path, content) == (path :> content) @@ fs

\* utils.read_python_file: the text, or "" when open() raises.
\* An "ok" content with an empty tree is the empty text.
IsEmptyText(c) == c.status = "missing" \/ (c.status = "ok" /\ c.tree = <<>>)

\* The placeholders of the listing.
NoDocstringsGenerated == [status |-> "No docstrings generated.", tree |-> <<>>]
FailedToGenerate == [status |-> "Failed to generate docstrings.", tree |-> <<>>]

\* read_python_file(output_path) or "No docstrings generated."
ReadOrPlaceholder(fs, path) ==
    IF IsEmptyText(Read(fs, path)) THEN NoDocstringsGenerated
    ELSE Read(fs, path)

\* escape_latex on a text the model holds as a whole (a file's text, a
\* finding, a base name): the escaped text is another text, from which the
\* reader of the document recovers the original.
escape_latex(text) == [escaped |-> text]

\* escape_latex on a text held character by character (the upload's name).
\* The keys of latex_special_chars in the order of the dict.
SpecialChars ==
    <<"#", "$", "%", "&", "_", "{", "}", "~", "^", "\\", "<", ">", "|">>

latex_special_chars(c) ==
    CASE c = "#" -> <<"\\", "#">>
      [] c = "$" -> <<"\\", "$">>
      [] c = "%" -> <<"\\", "%">>
      [] c = "&" -> <<"\\", "&">>
      [] c = "_" -> <<"\\", "_">>
      [] c = "{" -> <<"\\", "{">>
      [] c = "}" -> <<"\\", "}">>
      [] c = "~" -> <<"\\", "~", "{", "}">>
      [] c = "^" -> <<"\\", "^", "{", "}">>
      [] c = "\\" ->
            <<"\\", "t", "e", "x", "t", "b", "a", "c", "k", "s", "l", "a", "s",
              "h", "{", "}">>
      [] c = "<" ->
            <<"\\", "t", "e", "x", "t", "l", "e", "s", "s", "{", "}">>
      [] c = ">" ->
            <<"\\", "t", "e", "x", "t", "g", "r", "e", "a", "t", "e", "r", "{",
              "}">>
      [] c = "|" -> <<"\\", "t", "e", "x", "t", "b", "a", "r", "{", "}">>
      [] OTHER -> <<c>>

\* text.replace(c, by)
ReplaceAll(text, c, by) ==
    Concat([k \in 1..Len(text) |-> IF text[k] = c THEN by ELSE <<text[k]>>])

\* The backslash replaced in a second pass over the whole text: the
\* backslashes of the replacements of the first pass are replaced again.
EscapeChars_BackslashLast(text) ==
    ReplaceAll(Concat([k \in 1..Len(text) |->
                          IF text[k] = "\\" THEN <<text[k]>>
                          ELSE latex_special_chars(text[k])]),
               "\\", latex_special_chars("\\"))

\* ''.join(latex_special_chars.get(c, c) for c in text)
EscapeChars(text) ==
    Concat([k \in 1..Len(text) |-> latex_special_chars(text[k])])

\* file_name: the stem of the upload's name and its extension.
FileStems ==
    {<<"m", "a", "i", "n">>,
     <<"a", "#", "$", "%", "&", "_", "{", "}", "~", "^", "\\", "<", ">",
       "|">>}

ExtChars(ext) ==
    CASE ext = ".py" -> <<".", "p", "y">>
      [] ext = ".zip" -> <<".", "z", "i", "p">>
      [] OTHER -> <<".", "t", "x", "t">>

\* The two places of the preamble and the overview that hold file_name.
LatexHeader(name) ==
    [title |-> EscapeChars(name), overview |-> EscapeChars(name)]

EscapeAll(list) == [k \in 1..Len(list) |-> escape_latex(list[k])]

\* -------------------------------------------------------------- the result
Result(ok, value, tag) == [ok |-> ok, value |-> value, tag |-> tag]
NoResult == Result(FALSE, "", "")

PdfPath == "project_report.pdf"
TextPath == "project_report.txt"

TempDirFailed == Result(FALSE, "Failed to create temporary directory.", "none")
BadZip == Result(FALSE, "Invalid or corrupted ZIP file.", "none")
Unsupported ==
    Result(FALSE, "Unsupported file format. Please upload a .py or .zip file.",
           "none")
NoPythonFiles ==
    Result(FALSE, "No Python files found in the uploaded ZIP.", "none")
LatexWriteFailed == Result(FALSE, "Failed to write LaTeX file.", "none")
PdfMissing == Result(FALSE, "Failed to generate PDF report.", "none")

\* generate_text_fallback's return value for a write that worked / failed.
TextFallbackReturn(written) ==
    IF written THEN <<TRUE, TextPath>>
    ELSE <<FALSE, "Failed to write text report.">>

\* success, text_path = generate_text_fallback(...)
\* return success, text_path, "txt"
FallbackResult(ret) == Result(ret[1], ret[2], "txt")

\* zipfile.BadZipFile not caught at the extraction: it reaches the outer
\* except clause like any other exception.
ResolveInput_BadZipUncaught(up) ==
    IF up.ext = ".py"
    THEN [to |-> "files", files |-> <<up.members[1].path>>, result |-> NoResult]
    ELSE IF up.ext = ".zip"
    THEN IF up.zip \in {"bad", "error"}
         THEN [to |-> "raise", files |-> <<>>, result |-> NoResult]
         ELSE IF up.members = <<>>
         THEN [to |-> "return", files |-> <<>>, result |-> NoPythonFiles]
         ELSE [to |-> "files",
               files |-> [k \in 1..Len(up.members) |-> up.members[k].path],
               result |-> NoResult]
    ELSE [to |-> "return", files |-> <<>>, result |-> Unsupported]

\* Input resolution: what the branches on file_name do with the upload.
\*   "return"  a result is returned
\*   "raise"   an exception reaches the outer except clause
\*   "files"   python_files is the non-empty list
ResolveInput(up) ==
    IF up.ext = ".py"
    THEN [to |-> "files", files |-> <<up.members[1].path>>, result |-> NoResult]
    ELSE IF up.ext = ".zip"
    THEN IF up.zip = "bad"
         THEN [to |-> "return", files |-> <<>>, result |-> BadZip]
         ELSE IF up.zip = "error"
         THEN [to |-> "raise", files |-> <<>>, result |-> NoResult]
         ELSE IF up.members = <<>>
         THEN [to |-> "return", files |-> <<>>, result |-> NoPythonFiles]
         ELSE [to |-> "files",
               files |-> [k \in 1..Len(up.members) |-> up.members[k].path],
               result |-> NoResult]
    ELSE [to |-> "return", files |-> <<>>, result |-> Unsupported]

\* The review before the docstrings.
NextEngine_ReviewFirst(step) ==
    CASE step = "metrics" -> "review"
      [] step = "review" -> "docstrings"
      [] step = "docstrings" -> "bugs"
      [] OTHER -> "metrics"

\* The order of the loop body: the step after each engine call.
NextEngine(step) ==
    CASE step = "metrics" -> "docstrings"
      [] step = "docstrings" -> "review"
      [] step = "review" -> "bugs"
      [] OTHER -> "metrics"

\* The timeout swallowed: the call goes on as after exit status 0.
AfterCompile_TimeoutSwallowed(outcome) ==
    IF outcome \in {"ok", "timeout"} THEN "cleanup" ELSE "fallback"

\* What follows subprocess.run: the exit status and the except clauses.
\*   "ok" exit status 0, "nonzero", "missing" FileNotFoundError,
\*   "timeout" subprocess.TimeoutExpired, "oserror" any other exception
AfterCompile(outcome) ==
    IF outcome = "ok" THEN "cleanup" ELSE "fallback"

CompilerOutcomes == {"ok", "nonzero", "missing", "timeout", "oserror"}

\* One analysis section of the report, as the fields it interpolates.
Section(path, metrics, listing, review, bugs) ==
    [path |-> path, heading |-> path.base, metrics |-> metrics,
     listing |-> listing, review |-> review, bugs |-> bugs]

\* "Analysis of <file_base>": escaped in the LaTeX document, as it is in
\* the text report.
Heading(ph, path) ==
    IF ph = "primary" THEN escape_latex(path.base) ELSE path.base

Engine(name, path) == [engine |-> name, path |-> path]

\* ================================================================== state
VARIABLES
    hashSeed,        \* the process's string-hash seed
    \* --- one call of generate_project_report
    upload,          \* the arguments: file_name's extension, the input file
    file_stem,       \* file_name without its extension, as characters
    latex_header,    \* file_name as the LaTeX document holds it
    pc,              \* the statement the call is at
    phase,           \* "primary": generate_project_report's own loop;
                     \* "fallback": inside generate_text_fallback
    i,               \* the index of py_file in the loop
    temp_dir,        \* "unset", "exists", "removed"
    python_files,    \* python_files
    fallback_files,  \* generate_text_fallback's python_files argument
    files,           \* the file system: path -> contents
    section,         \* the locals of the loop body
    latex_content,   \* the sections appended to latex_content
    text_content,    \* the sections appended to text_content
    artifacts,       \* the report files written to output_dir
    compiled,        \* how subprocess.run ended, "no" before it
    model_seen,      \* the CodeBERT outcome for each text classified so far
    log,             \* the engine calls made, in order
    result,          \* the returned triple
    \* --- one call of one engine on one file
    source,          \* what file_path holds
    called,          \* the engine called, "none" before
    model_outcome,   \* the CodeBERT outcome of that call
    comments,        \* review_code's return value
    bugs,            \* predict_bugs's return value
    docstrings,      \* add_docstrings's return value and output file
    code_metrics,    \* calculate_code_metrics's return value
    output_before,   \* what output_path held before add_docstrings
    again,           \* add_docstrings run on its own output: return value
                     \* and output file
    \* --- one upload to one front end
    front_end,       \* "app", "colab" or "gradio"
    max_file_size,   \* the configured max_file_size
    uploaded_file,   \* the upload: its size in bytes and its extension
    ui,              \* where the front end is with the upload
    shown,           \* the message shown last, "" before any
    stored,          \* what the front end has written or extracted
    invoked,         \* the engines and models called for the upload
    \* --- two report requests of app.py on one output directory
    request,         \* each request: where it is, its locals, its answer
    output_dir       \* the files of output_dir: name -> contents

reportVars ==
    <<upload, file_stem, latex_header, pc, phase, i, temp_dir, python_files,
      fallback_files, files,
      section, latex_content, text_content, artifacts, compiled, model_seen,
      log, result>>
engineVars ==
    <<source, called, model_outcome, comments, bugs, docstrings, code_metrics,
      output_before, again>>
uploadVars ==
    <<front_end, max_file_size, uploaded_file, ui, shown, stored, invoked>>
requestVars == <<request, output_dir>>
vars == <<hashSeed, reportVars, engineVars, uploadVars, requestVars>>

EmptySection == Section(UploadedFile, Metrics(0, 0, 0, 0), NoFile, <<>>, <<>>)

ReportIdle ==
    /\ latex_header = <<>>
    /\ pc = "start"
    /\ phase = "primary"
    /\ i = 1
    /\ temp_dir = "unset"
    /\ python_files = <<>>
    /\ fallback_files = <<>>
    /\ section = EmptySection
    /\ latex_content = <<>>
    /\ text_content = <<>>
    /\ artifacts = {}
    /\ compiled = "no"
    /\ model_seen = <<>>
    /\ log = <<>>
    /\ result = NoResult

EngineIdle ==
    /\ called = "none"
    /\ model_outcome = 0
    /\ comments = <<>>
    /\ bugs = <<>>
    /\ docstrings = [ok |-> FALSE, out |-> NoFile]
    /\ code_metrics = Metrics(0, 0, 0, 0)
    /\ output_before = NoFile
    /\ again = [ok |-> FALSE, out |-> NoFile]

UploadIdle ==
    /\ front_end = "none"
    /\ max_file_size = DefaultMaxFileSize
    /\ uploaded_file = [size |-> 0, ext |-> ".py"]
    /\ ui = "idle"
    /\ shown = ""
    /\ stored = {}
    /\ invoked = {}

RequestIdle ==
    /\ request = <<>>
    /\ output_dir = <<>>

\* --------------------------------------------- generate_project_report
Init ==
    /\ hashSeed \in {0, 1}
    /\ upload \in Uploads
    /\ file_stem \in FileStems
    /\ files = IF upload.ext = ".py"
               THEN (UploadedFile :> upload.members[1].content)
               ELSE <<>>
    /\ ReportIdle
    /\ source = NoFile
    /\ EngineIdle
    /\ UploadIdle
    /\ RequestIdle

\* The call of generate_text_fallback(python_files, output_dir, file_name)
\* and the start of its loop.
EnterFallback(list) ==
    /\ phase' = "fallback"
    /\ fallback_files' = list
    /\ text_content' = <<>>
    /\ i' = 1
    /\ pc' = IF list = <<>> THEN "write_text" ELSE "metrics"

Return(r) ==
    /\ result' = r
    /\ pc' = "done"

\* temp_dir = tempfile.mkdtemp(); ensure_directory(temp_dir).  When mkdtemp
\* raises, the except clause evaluates python_files, which is not yet
\* bound: the UnboundLocalError leaves the function.
MakeTempDir ==
    /\ pc = "start"
    /\ \/ /\ pc' = "raised"
          /\ UNCHANGED <<temp_dir, result>>
       \/ /\ temp_dir' = "exists"
          /\ Return(TempDirFailed)
       \/ /\ temp_dir' = "exists"
          /\ pc' = "resolve"
          /\ UNCHANGED result
    /\ UNCHANGED <<hashSeed, requestVars, upload, file_stem, latex_header,
                   phase, i, python_files, fallback_files,
                   files, section, latex_content, text_content, artifacts,
                   compiled, model_seen, log, engineVars, uploadVars>>

\* zip_ref.extractall(temp_dir)
Extracted(fs, up) ==
    IF up.ext = ".zip" /\ up.zip = "ok"
    THEN [p \in DOMAIN fs \cup {up.members[k].path : k \in 1..Len(up.members)}
            |-> IF \E k \in 1..Len(up.members) : up.members[k].path = p
                THEN (CHOOSE m \in Range(up.members) : m.path = p).content
                ELSE fs[p]]
    ELSE fs

\* file_name
FileName == file_stem \o ExtChars(upload.ext)

\* Input resolution and, with a non-empty list, the preamble and the
\* overview of the LaTeX document.
Resolve ==
    /\ pc = "resolve"
    /\ LET r == ResolveInput(upload)
       IN  /\ files' = Extracted(files, upload)
           /\ python_files' = r.files
           /\ latex_header' = IF r.to = "files" THEN LatexHeader(FileName)
                              ELSE latex_header
           /\ \/ /\ r.to = "return"
                 /\ Return(r.result)
                 /\ UNCHANGED <<phase, fallback_files, text_content, i>>
              \/ /\ r.to = "raise"
                 /\ EnterFallback(r.files)
                 /\ UNCHANGED result
              \/ /\ r.to = "files"
                 /\ pc' = "metrics"
                 /\ UNCHANGED <<phase, fallback_files, text_content, i,
                                result>>
    /\ UNCHANGED <<hashSeed, requestVars, upload, file_stem, temp_dir, section,
                   latex_content, artifacts, compiled, model_seen, log,
                   engineVars, uploadVars>>

\* The list the loop at hand runs over, and its py_file.
LoopFiles == IF phase = "primary" THEN python_files ELSE fallback_files
PyFile == LoopFiles[i]

\* metrics = calculate_code_metrics(py_file)
CodeMetrics ==
    /\ pc = "metrics"
    /\ section' = [EmptySection EXCEPT
                     !.path = PyFile,
                     !.heading = Heading(phase, PyFile),
                     !.metrics = calculate_code_metrics(Read(files, PyFile))]
    /\ log' = Append(log, Engine("calculate_code_metrics", PyFile))
    /\ pc' = NextEngine("metrics")
    /\ UNCHANGED <<hashSeed, requestVars, upload, file_stem, latex_header,
                   phase, i, temp_dir, python_files,
                   fallback_files, files, latex_content, text_content,
                   artifacts, compiled, model_seen, result, engineVars,
                   uploadVars>>

\* output_path = os.path.join(temp_dir | output_dir, f"doc_{file_base}")
OutputPath ==
    Path(IF phase = "primary" THEN "temp" ELSE "out", "", DocName(PyFile.base))

\* The listing of the section.  generate_project_report reads output_path
\* whatever add_docstrings returned; generate_text_fallback reads it only
\* after True.
Listing(ph, ok, fs, path) ==
    IF ph = "primary" THEN escape_latex(ReadOrPlaceholder(fs, path))
    ELSE IF ok THEN ReadOrPlaceholder(fs, path)
    ELSE FailedToGenerate

\* add_docstrings(py_file, output_path) and the reading of output_path.
\* The directories of the doc_ files are writable here; the failing write
\* is a case of AddDocstrings below.
GenerateDocstrings ==
    /\ pc = "docstrings"
    /\ LET r == add_docstrings(Read(files, PyFile), Read(files, OutputPath),
                               "ok")
           fs == IF r.ok THEN WriteFile(files, OutputPath, r.out) ELSE files
       IN  /\ files' = fs
           /\ section' = [section EXCEPT
                            !.listing = Listing(phase, r.ok, fs, OutputPath)]
    /\ log' = Append(log, Engine("add_docstrings", PyFile))
    /\ pc' = NextEngine("docstrings")
    /\ UNCHANGED <<hashSeed, requestVars, upload, file_stem, latex_header,
                   phase, i, temp_dir, python_files,
                   fallback_files, latex_content, text_content, artifacts,
                   compiled, model_seen, result, engineVars, uploadVars>>

\* The items of a findings list as the document holds them.
Items(ph, list) == IF ph = "primary" THEN EscapeAll(list) ELSE list

\* review_comments = review_code(py_file).  The classifier is a function of
\* the text within one process: a text it has classified gets the same
\* outcome again.
CodeReview ==
    /\ pc = "review"
    /\ LET src == Read(files, PyFile)
       IN  \E m \in ModelOutcomes :
             /\ src \in DOMAIN model_seen => m = model_seen[src]
             /\ src.status # "ok" => m = ScoreThreshold
             /\ model_seen' = IF src.status = "ok"
                              THEN (src :> m) @@ model_seen
                              ELSE model_seen
             /\ section' = [section EXCEPT
                   !.review = Items(phase, review_code(src, m, hashSeed))]
    /\ log' = Append(log, Engine("review_code", PyFile))
    /\ pc' = NextEngine("review")
    /\ UNCHANGED <<hashSeed, requestVars, upload, file_stem, latex_header,
                   phase, i, temp_dir, python_files,
                   fallback_files, files, latex_content, text_content,
                   artifacts, compiled, result, engineVars, uploadVars>>

\* bug_predictions = predict_bugs(py_file); the section is complete and the
\* loop goes to the next file or ends.
BugPrediction ==
    /\ pc = "bugs"
    /\ LET done == [section EXCEPT
                      !.bugs = Items(phase, predict_bugs(Read(files, PyFile)))]
       IN  /\ section' = done
           /\ IF phase = "primary"
              THEN /\ latex_content' = Append(latex_content, done)
                   /\ UNCHANGED text_content
              ELSE /\ text_content' = Append(text_content, done)
                   /\ UNCHANGED latex_content
    /\ log' = Append(log, Engine("predict_bugs", PyFile))
    /\ IF i < Len(LoopFiles)
       THEN /\ i' = i + 1
            /\ pc' = NextEngine("bugs")
       ELSE /\ i' = i
            /\ pc' = IF phase = "primary" THEN "write_latex" ELSE "write_text"
    /\ UNCHANGED <<hashSeed, requestVars, upload, file_stem, latex_header,
                   phase, temp_dir, python_files,
                   fallback_files, files, artifacts, compiled, model_seen,
                   result, engineVars, uploadVars>>

\* write_python_file(latex_content, latex_path)
WriteLatex ==
    /\ pc = "write_latex"
    /\ \/ /\ artifacts' = artifacts \cup {"project_report.tex"}
          /\ pc' = "compile"
          /\ UNCHANGED result
       \/ /\ Return(LatexWriteFailed)
          /\ UNCHANGED artifacts
    /\ UNCHANGED <<hashSeed, requestVars, upload, file_stem, latex_header,
                   phase, i, temp_dir, python_files,
                   fallback_files, files, section, latex_content,
                   text_content, compiled, model_seen, log, engineVars,
                   uploadVars>>

\* subprocess.run(["latexmk", ...], timeout=60).  A run that exits with
\* status 0 may or may not have left project_report.pdf.
CompileLatex ==
    /\ pc = "compile"
    /\ \E outcome \in CompilerOutcomes, pdf \in BOOLEAN :
          /\ compiled' = outcome
          /\ IF AfterCompile(outcome) = "fallback"
             THEN /\ pdf = FALSE
                  /\ EnterFallback(python_files)
                  /\ UNCHANGED artifacts
             ELSE /\ artifacts' = IF pdf THEN artifacts \cup {PdfPath}
                                  ELSE artifacts
                  /\ pc' = AfterCompile(outcome)
                  /\ UNCHANGED <<phase, fallback_files, text_content, i>>
    /\ UNCHANGED <<hashSeed, requestVars, upload, file_stem, latex_header,
                   temp_dir, python_files, files, section,
                   latex_content, model_seen, log, result, engineVars,
                   uploadVars>>

\* shutil.rmtree(temp_dir)
RemoveTree(fs) == [p \in {q \in DOMAIN fs : q.area # "temp"} |-> fs[p]]

\* The removal of the auxiliary files and of temp_dir, then the test of
\* os.path.exists(pdf_path).  os.remove or shutil.rmtree raising takes the
\* call to the outer except clause.
CleanUp ==
    /\ pc = "cleanup"
    /\ \/ /\ temp_dir' = "removed"
          /\ files' = RemoveTree(files)
          /\ Return(IF PdfPath \in artifacts
                    THEN Result(TRUE, PdfPath, "pdf")
                    ELSE PdfMissing)
          /\ UNCHANGED <<phase, fallback_files, text_content, i>>
       \/ /\ EnterFallback(python_files)
          /\ UNCHANGED <<temp_dir, files, result>>
    /\ UNCHANGED <<hashSeed, requestVars, upload, file_stem, latex_header,
                   python_files, section, latex_content,
                   artifacts, compiled, model_seen, log, engineVars,
                   uploadVars>>

\* write_python_file(text_content, text_path) and the two returns: of
\* generate_text_fallback and of generate_project_report.
WriteTextReport ==
    /\ pc = "write_text"
    /\ \E written \in BOOLEAN :
          /\ artifacts' = IF written THEN artifacts \cup {TextPath}
                          ELSE artifacts
          /\ Return(FallbackResult(TextFallbackReturn(written)))
    /\ UNCHANGED <<hashSeed, requestVars, upload, file_stem, latex_header,
                   phase, i, temp_dir, python_files,
                   fallback_files, files, section, latex_content,
                   text_content, compiled, model_seen, log, engineVars,
                   uploadVars>>

Next ==
    \/ MakeTempDir
    \/ Resolve
    \/ CodeMetrics
    \/ GenerateDocstrings
    \/ CodeReview
    \/ BugPrediction
    \/ WriteLatex
    \/ CompileLatex
    \/ CleanUp
    \/ WriteTextReport

Spec == Init /\ [][Next]_vars

\* ------------------------------------------------- the engines, one call
\* Trees three levels deep: a statement inside a compound statement inside
\* a compound statement.
DeepShapes ==
    {Mk("FunctionDef", {"a", "b"}, "none", 1, ""),
     Mk("FunctionDef", {}, "none", LongBody - 1, ""),
     Mk("If", {}, "", 0, ""),
     Mk("While", {}, "", 0, "True"),
     Mk("Name", {}, "", 0, "a"),
     Mk("Call", {}, "", 0, "eval"),
     Mk("Break", {}, "", 0, "")}

DeepTrees ==
    {t \in {Table(f, <<0, 1, 2>>) : f \in [1..3 -> DeepShapes]} : IsTree(t)}

EngineInit ==
    /\ hashSeed \in {0, 1}
    /\ \/ source \in {NoFile, BadSource}
       \/ source \in {Src(t) : t \in DeepTrees}
       \/ \E n \in 0..MaxNodes :
             \E f \in [1..n -> Shapes], par \in [1..n -> 0..(MaxNodes - 1)] :
                /\ IsTree(Table(f, par))
                /\ source = Src(Table(f, par))
    /\ EngineIdle
    /\ upload = [ext |-> ".txt", zip |-> "ok", members |-> <<>>]
    /\ file_stem = <<>>
    /\ files = <<>>
    /\ ReportIdle
    /\ UploadIdle
    /\ RequestIdle

ReviewCode ==
    /\ called = "none"
    /\ called' = "review_code"
    /\ \E m \in ModelOutcomes :
          /\ model_outcome' = m
          /\ comments' = review_code(source, m, hashSeed)
    /\ UNCHANGED <<hashSeed, requestVars, reportVars, uploadVars, source,
                   bugs, docstrings,
                   code_metrics, output_before, again>>

PredictBugs ==
    /\ called = "none"
    /\ called' = "predict_bugs"
    /\ bugs' = predict_bugs(source)
    /\ UNCHANGED <<hashSeed, requestVars, reportVars, uploadVars, source,
                   model_outcome,
                   comments,
                   docstrings, code_metrics, output_before, again>>

\* What output_path may hold before the call: nothing, or a text.
OutputsBefore == {NoFile, BadSource}

AddDocstrings ==
    /\ called = "none"
    /\ called' = "add_docstrings"
    /\ \E old \in OutputsBefore, wr \in WriteOutcomes :
          /\ output_before' = old
          /\ docstrings' = add_docstrings(source, old, wr)
    /\ UNCHANGED <<hashSeed, requestVars, reportVars, uploadVars, source,
                   model_outcome,
                   comments,
                   bugs, code_metrics, again>>

\* add_docstrings(output_path, second_path) after a run that returned True:
\* the second run reads what the first one wrote; it writes to a path of
\* its own or over its input.
AddDocstringsAgain ==
    /\ called = "add_docstrings"
    /\ docstrings.ok
    /\ called' = "add_docstrings_again"
    /\ \E old \in {NoFile, docstrings.out}, wr \in WriteOutcomes :
          again' = add_docstrings(docstrings.out, old, wr)
    /\ UNCHANGED <<hashSeed, requestVars, reportVars, uploadVars, source,
                   model_outcome,
                   comments,
                   bugs, docstrings, code_metrics, output_before>>

CalculateCodeMetrics ==
    /\ called = "none"
    /\ called' = "calculate_code_metrics"
    /\ code_metrics' = calculate_code_metrics(source)
    /\ UNCHANGED <<hashSeed, requestVars, reportVars, uploadVars, source,
                   model_outcome,
                   comments,
                   bugs, docstrings, output_before, again>>

EngineNext ==
    \/ ReviewCode
    \/ PredictBugs
    \/ AddDocstrings
    \/ AddDocstringsAgain
    \/ CalculateCodeMetrics

EngineSpec == EngineInit /\ [][EngineNext]_vars

\* ============================================================ front ends
\* One upload to one of the three front ends: app.py and smartsdlc_colab.py
\* (Streamlit scripts, run from the top for each interaction) and
\* smartsdlc_gradio_shared.py (Gradio handlers).
FrontEnds == {"app", "colab", "gradio"}

\* f"File size exceeds {max_file_size / 1024 / 1024:.1f}MB limit."
SizeExceeded == "File size exceeds limit."
SaveFailed == "Failed to save uploaded file."
NoPythonInZip == "No Python files found in the ZIP archive."
Received == "Python file received successfully."
ZipExtracted == "ZIP file extracted."
ZipError == "Error processing ZIP."

Buttons ==
    {"add_docstrings", "review_code", "predict_bugs",
     "generate_project_report"}

\* max_file_size: app.py reads config.json and falls back to the default,
\* the other two front ends hold the default in a dict literal.
MaxFileSizes(fe) ==
    IF fe = "app" THEN {DefaultMaxFileSize, SmallFileSize}
    ELSE {DefaultMaxFileSize}

\* The payload sizes tried against a maximum.
Sizes(max) == {0, max - 1, max, max + 1}

UploadInit ==
    /\ front_end \in FrontEnds
    /\ max_file_size \in MaxFileSizes(front_end)
    /\ uploaded_file \in [size : Sizes(max_file_size), ext : {".py", ".zip"}]
    /\ ui = "uploaded"
    /\ shown = ""
    /\ stored = {}
    /\ invoked = {}
    /\ hashSeed = 0
    /\ upload = [ext |-> ".txt", zip |-> "ok", members |-> <<>>]
    /\ file_stem = <<>>
    /\ files = <<>>
    /\ ReportIdle
    /\ source = NoFile
    /\ EngineIdle
    /\ RequestIdle

\* len(uploaded_file.getvalue()) > max_file_size
TooLarge(size, max) == size > max

\* The top of the Streamlit script, app.py 29-38 and smartsdlc_colab.py
\* 148-172: the size check, then the upload is saved (colab extracts an
\* archive instead).
StreamlitRun ==
    /\ ui = "uploaded"
    /\ front_end \in {"app", "colab"}
    /\ IF TooLarge(uploaded_file.size, max_file_size)
       THEN /\ shown' = SizeExceeded
            /\ ui' = "rejected"
            /\ UNCHANGED stored
       ELSE IF front_end = "colab" /\ uploaded_file.ext = ".zip"
       THEN /\ stored' = {"extracted"}
            /\ \/ ui' = "ready" /\ shown' = ZipExtracted
               \/ ui' = "stopped" /\ shown' = NoPythonInZip
       ELSE \/ /\ stored' = {"temp_input"}
               /\ ui' = "ready"
               /\ UNCHANGED shown
            \/ /\ shown' = SaveFailed
               /\ ui' = "stopped"
               /\ UNCHANGED stored
    /\ UNCHANGED <<hashSeed, requestVars, reportVars, engineVars, front_end,
                   max_file_size,
                   uploaded_file, invoked>>

\* A button of the Streamlit page: app.py calls the engine, the colab
\* script the engine of the same name with the Granite model; the three
\* single-file engines are refused for an input path that does not end in
\* .py.  The script then removes temp_input and temp_output.
StreamlitButton ==
    /\ ui = "ready"
    /\ front_end \in {"app", "colab"}
    /\ \E b \in Buttons :
          invoked' =
             IF b # "generate_project_report" /\ uploaded_file.ext # ".py"
                /\ front_end = "app"
             THEN invoked
             ELSE invoked \cup {b}
                     \cup (IF front_end = "colab" THEN {"granite"} ELSE {})
    /\ stored' = stored \ {"temp_input"}
    /\ ui' = "cleaned"
    /\ UNCHANGED <<hashSeed, requestVars, reportVars, engineVars, front_end,
                   max_file_size,
                   uploaded_file, shown>>

\* handle_upload(file), smartsdlc_gradio_shared.py 87-113: the .py file is
\* taken as it is, the archive is copied to output_dir and extracted;
\* config["max_file_size"] is not read.  to is "path" when a path is
\* returned, "none" when None is.
handle_upload(ext, zip) ==
    IF ext = ".py"
    THEN [status |-> Received, to |-> "path", stored |-> {}]
    ELSE IF zip = "error"
    THEN [status |-> ZipError, to |-> "none", stored |-> {"zip_copy"}]
    ELSE IF zip = "empty"
    THEN [status |-> NoPythonInZip, to |-> "none", stored |-> {"extracted"}]
    ELSE [status |-> ZipExtracted, to |-> "path", stored |-> {"extracted"}]

\* file_input.change(fn=handle_upload)
GradioChange ==
    /\ ui = "uploaded"
    /\ front_end = "gradio"
    /\ \E zip \in {"ok", "empty", "error"} :
          LET r == handle_upload(uploaded_file.ext, zip)
          IN  /\ shown' = r.status
              /\ stored' = stored \cup r.stored
              /\ ui' = IF r.to = "path" THEN "ready" ELSE "stopped"
    /\ UNCHANGED <<hashSeed, requestVars, reportVars, engineVars, front_end,
                   max_file_size,
                   uploaded_file, invoked>>

\* A button of the Gradio page, generate_docstrings, review_code,
\* predict_bugs and generate_report: handle_upload again on the path the
\* change handler put into file_input (a .py path), then the file is read
\* and the Granite model loaded and run.
GradioButton ==
    /\ ui = "ready"
    /\ front_end = "gradio"
    /\ \E b \in Buttons, outcome \in {"generated", "read_fails", "no_model"} :
          LET r == handle_upload(".py", "ok")
          IN  /\ stored' = stored \cup r.stored
              /\ invoked' = invoked \cup {b} \cup
                     (IF r.to = "path" /\ outcome = "generated"
                      THEN {"granite"} ELSE {})
    /\ ui' = "answered"
    /\ UNCHANGED <<hashSeed, requestVars, reportVars, engineVars, front_end,
                   max_file_size,
                   uploaded_file, shown>>

UploadNext ==
    \/ StreamlitRun
    \/ StreamlitButton
    \/ GradioChange
    \/ GradioButton

UploadSpec == UploadInit /\ [][UploadNext]_vars

\* ========================================================= two requests
\* Two sessions of app.py, each running the script for a click on
\* "Generate Project Report" with a .py upload; the two runs interleave on
\* the one output_dir of the configuration.
Requests == {"first", "second"}

\* The files of output_dir, by name.
InputName == "temp_input.py"
LatexName == "project_report.tex"
DocOutName == "doc_temp_input.py"

\* What a file holds: the request that wrote it and the requests whose
\* upload its text is derived from.
Content(by, from) == [by |-> by, from |-> from]

\* What a text read from a path is derived from; reading a path that does
\* not exist gives a text derived from no upload (an error entry, zero
\* metrics, a placeholder).
Derived(dir, name) == IF name \in DOMAIN dir THEN dir[name].from ELSE {}

\* os.remove(path) if os.path.exists(path)
Remove(dir, name) == [n \in DOMAIN dir \ {name} |-> dir[n]]

\* A request before its script runs.  temp_dir holds the files of the
\* directory tempfile.mkdtemp() made for this call, section the uploads the
\* analysis section is derived from, delivered the artifact handed to the
\* download button.
NewRequest ==
    [pc |-> "upload", phase |-> "primary", temp_dir |-> <<>>,
     doc_ok |-> FALSE, section |-> {}, result |-> NoResult, delivered |-> {}]

TwoRequestsInit ==
    /\ request = [r \in Requests |-> NewRequest]
    /\ output_dir = <<>>
    /\ hashSeed = 0
    /\ upload = [ext |-> ".txt", zip |-> "ok", members |-> <<>>]
    /\ file_stem = <<>>
    /\ files = <<>>
    /\ ReportIdle
    /\ source = NoFile
    /\ EngineIdle
    /\ UploadIdle

\* app.py 35-38: write_python_file(..., input_path) with
\* input_path = output_dir/temp_input.py.
ReqSave(r) ==
    /\ request[r].pc = "upload"
    /\ \/ /\ output_dir' = WriteFile(output_dir, InputName, Content(r, {r}))
          /\ request' = [request EXCEPT ![r].pc = "report"]
       \/ /\ request' = [request EXCEPT ![r].pc = "end"]
          /\ UNCHANGED output_dir
    /\ UNCHANGED <<hashSeed, reportVars, engineVars, uploadVars>>

\* generate_project_report(input_path, output_dir, uploaded_file.name):
\* a temporary directory of the call's own, python_files = [input_path].
ReqStart(r) ==
    /\ request[r].pc = "report"
    /\ request' = [request EXCEPT ![r].pc = "metrics", ![r].temp_dir = <<>>]
    /\ UNCHANGED output_dir
    /\ UNCHANGED <<hashSeed, reportVars, engineVars, uploadVars>>

\* calculate_code_metrics(py_file) opens the section of the file.
ReqMetrics(r) ==
    /\ request[r].pc = "metrics"
    /\ request' = [request EXCEPT
                     ![r].pc = "docstrings",
                     ![r].section = Derived(output_dir, InputName)]
    /\ UNCHANGED output_dir
    /\ UNCHANGED <<hashSeed, reportVars, engineVars, uploadVars>>

\* add_docstrings(py_file, output_path): output_path is in temp_dir in
\* generate_project_report and in output_dir in generate_text_fallback.
\* Nothing is written when py_file cannot be read.
ReqDocstrings(r) ==
    /\ request[r].pc = "docstrings"
    /\ LET ok == InputName \in DOMAIN output_dir
           doc == Content(r, Derived(output_dir, InputName))
       IN  /\ request' = [request EXCEPT
                 ![r].pc = "listing",
                 ![r].doc_ok = ok,
                 ![r].temp_dir =
                    IF ok /\ request[r].phase = "primary"
                    THEN WriteFile(@, DocOutName, doc) ELSE @]
           /\ output_dir' =
                 IF ok /\ request[r].phase = "fallback"
                 THEN WriteFile(output_dir, DocOutName, doc) ELSE output_dir
    /\ UNCHANGED <<hashSeed, reportVars, engineVars, uploadVars>>

\* read_python_file(output_path): always in generate_project_report, after
\* True in generate_text_fallback.
ReqListing(r) ==
    /\ request[r].pc = "listing"
    /\ LET read == IF request[r].phase = "primary"
                   THEN Derived(request[r].temp_dir, DocOutName)
                   ELSE IF request[r].doc_ok
                   THEN Derived(output_dir, DocOutName)
                   ELSE {}
       IN  request' = [request EXCEPT
                         ![r].pc = "review",
                         ![r].section = @ \cup read]
    /\ UNCHANGED output_dir
    /\ UNCHANGED <<hashSeed, reportVars, engineVars, uploadVars>>

\* review_code(py_file)
ReqReview(r) ==
    /\ request[r].pc = "review"
    /\ request' = [request EXCEPT
                     ![r].pc = "bugs",
                     ![r].section = @ \cup Derived(output_dir, InputName)]
    /\ UNCHANGED output_dir
    /\ UNCHANGED <<hashSeed, reportVars, engineVars, uploadVars>>

\* predict_bugs(py_file); the loop over the one file ends.
ReqBugs(r) ==
    /\ request[r].pc = "bugs"
    /\ request' = [request EXCEPT
                     ![r].pc = IF request[r].phase = "primary"
                               THEN "write_latex" ELSE "write_text",
                     ![r].section = @ \cup Derived(output_dir, InputName)]
    /\ UNCHANGED output_dir
    /\ UNCHANGED <<hashSeed, reportVars, engineVars, uploadVars>>

\* write_python_file(latex_content, output_dir/project_report.tex)
ReqWriteLatex(r) ==
    /\ request[r].pc = "write_latex"
    /\ \/ /\ output_dir' = WriteFile(output_dir, LatexName,
                                     Content(r, request[r].section))
          /\ request' = [request EXCEPT ![r].pc = "compile"]
       \/ /\ request' = [request EXCEPT
                           ![r].pc = "answer",
                           ![r].result = LatexWriteFailed]
          /\ UNCHANGED output_dir
    /\ UNCHANGED <<hashSeed, reportVars, engineVars, uploadVars>>

\* latexmk -pdf -outdir=output_dir project_report.tex: it compiles what
\* the file holds when it runs.
ReqCompile(r) ==
    /\ request[r].pc = "compile"
    /\ \E outcome \in CompilerOutcomes, pdf \in BOOLEAN :
          IF AfterCompile(outcome) = "fallback"
          THEN /\ pdf = FALSE
               /\ request' = [request EXCEPT
                                ![r].pc = "metrics",
                                ![r].phase = "fallback",
                                ![r].section = {}]
               /\ UNCHANGED output_dir
          ELSE /\ request' = [request EXCEPT ![r].pc = "cleanup"]
               /\ output_dir' =
                     IF pdf
                     THEN WriteFile(output_dir, PdfPath,
                             Content(r, Derived(output_dir, LatexName)))
                     ELSE output_dir
    /\ UNCHANGED <<hashSeed, reportVars, engineVars, uploadVars>>

\* shutil.rmtree(temp_dir) and os.path.exists(pdf_path)
ReqCleanUp(r) ==
    /\ request[r].pc = "cleanup"
    /\ request' = [request EXCEPT
                     ![r].pc = "answer",
                     ![r].temp_dir = <<>>,
                     ![r].result = IF PdfPath \in DOMAIN output_dir
                                   THEN Result(TRUE, PdfPath, "pdf")
                                   ELSE PdfMissing]
    /\ UNCHANGED output_dir
    /\ UNCHANGED <<hashSeed, reportVars, engineVars, uploadVars>>

\* write_python_file(text_content, output_dir/project_report.txt)
ReqWriteText(r) ==
    /\ request[r].pc = "write_text"
    /\ \E wrote \in BOOLEAN :
          /\ output_dir' =
                IF wrote
                THEN WriteFile(output_dir, TextPath,
                               Content(r, request[r].section))
                ELSE output_dir
          /\ request' = [request EXCEPT
                ![r].pc = "answer",
                ![r].result = FallbackResult(TextFallbackReturn(wrote))]
    /\ UNCHANGED <<hashSeed, reportVars, engineVars, uploadVars>>

\* app.py 113-132: after success, open(result, "rb") is what the download
\* button serves.
ReqAnswer(r) ==
    /\ request[r].pc = "answer"
    /\ request' = [request EXCEPT
                     ![r].pc = "tidy",
                     ![r].delivered =
                        IF request[r].result.ok
                           /\ request[r].result.value \in DOMAIN output_dir
                        THEN {output_dir[request[r].result.value]}
                        ELSE {}]
    /\ UNCHANGED output_dir
    /\ UNCHANGED <<hashSeed, reportVars, engineVars, uploadVars>>

\* app.py 138-141: input_path (and temp_output.py) removed when it exists.
ReqTidy(r) ==
    /\ request[r].pc = "tidy"
    /\ request' = [request EXCEPT ![r].pc = "end"]
    /\ output_dir' = Remove(output_dir, InputName)
    /\ UNCHANGED <<hashSeed, reportVars, engineVars, uploadVars>>

TwoRequestsNext ==
    \E r \in Requests :
       \/ ReqSave(r)
       \/ ReqStart(r)
       \/ ReqMetrics(r)
       \/ ReqDocstrings(r)
       \/ ReqListing(r)
       \/ ReqReview(r)
       \/ ReqBugs(r)
       \/ ReqWriteLatex(r)
       \/ ReqCompile(r)
       \/ ReqCleanUp(r)
       \/ ReqWriteText(r)
       \/ ReqAnswer(r)
       \/ ReqTidy(r)

TwoRequestsSpec == TwoRequestsInit /\ [][TwoRequestsNext]_vars

\* ================================================================== claims
Returned == pc = "done"

\* The analysis loop of generate_project_report has run over every file.
Analysed == python_files # <<>> /\ Len(latex_content) = Len(python_files)

\* C1: every call of generate_project_report that returns, returns
\* (true, PDF path, 'pdf'), (true, text path, 'txt') or (false, message,
\* 'none'): never false with 'pdf' or 'txt', never true with 'none'.
C1_ThreeOutcomes ==
    Returned =>
        \/ result = Result(TRUE, PdfPath, "pdf")
        \/ result = Result(TRUE, TextPath, "txt")
        \/ (result.ok = FALSE /\ result.tag = "none")

\* C2: once python_files is non-empty, generate_project_report returns
\* ok = false only after generate_text_fallback was called and failed; no
\* failure of the primary rendering is returned as a failure directly.
C2_FailureOnlyAfterFallback ==
    (Returned /\ python_files # <<>> /\ ~result.ok) =>
        (phase = "fallback" /\ TextPath \notin artifacts)

\* C3: when latexmk exits non-zero, is not installed or runs into the 60 s
\* timeout, generate_text_fallback is called with the resolved file list,
\* it renders one section per resolved file, and when the text report is
\* written the call returns (true, text path, 'txt'); the call fails only
\* when the text report could not be written.
C3_CompilerFailureFallsBack ==
    compiled \in {"nonzero", "missing", "timeout"} =>
        /\ phase = "fallback"
        /\ fallback_files = python_files
        /\ Returned =>
              /\ [k \in 1..Len(text_content) |-> text_content[k].path]
                    = python_files
              /\ TextPath \in artifacts
                    => result = Result(TRUE, TextPath, "txt")
              /\ ~result.ok => TextPath \notin artifacts

C3_Witness ==
    /\ Returned
    /\ compiled = "timeout"
    /\ Len(text_content) = MaxFiles
    /\ result = Result(TRUE, TextPath, "txt")

\* C4: a file name that ends in neither .py nor .zip, an archive zipfile
\* rejects as bad (zipfile.BadZipFile) and an archive without .py members
\* each make the call, once its temporary directory exists, return (false,
\* message, 'none') with the message of that case; no engine has run and no
\* report file has been written; the bad-archive message is not the
\* no-source-files message.
InvalidInput ==
    \/ upload.ext \notin {".py", ".zip"}
    \/ upload.ext = ".zip" /\ upload.zip = "bad"
    \/ upload.ext = ".zip" /\ upload.zip = "ok" /\ upload.members = <<>>

C5_FallbackSameContent ==
    (Returned /\ result = Result(TRUE, TextPath, "txt") /\ Analysed
       /\ Len(text_content) = Len(latex_content)) =>
        \A k \in 1..Len(latex_content) :
            /\ latex_content[k].path = text_content[k].path
            /\ latex_content[k].metrics = text_content[k].metrics
            /\ latex_content[k].listing = escape_latex(text_content[k].listing)
            /\ latex_content[k].review = EscapeAll(text_content[k].review)
            /\ latex_content[k].bugs = EscapeAll(text_content[k].bugs)

\* C6: with unparseable files in the batch the report still has one
\* section per resolved file, in resolution order, and the section of an
\* unparseable file holds zero metrics, a documentation placeholder and
\* one error entry in each findings list.
Unparseable(k) == upload.members[k].content = BadSource

C6_UnparseableFileSection ==
    Analysed =>
        /\ [k \in 1..Len(latex_content) |-> latex_content[k].path]
              = python_files
        /\ \A k \in 1..Len(latex_content) :
              Unparseable(k) =>
                 /\ latex_content[k].metrics = Metrics(0, 0, 0, 0)
                 /\ latex_content[k].listing
                       = escape_latex(NoDocstringsGenerated)
                 /\ latex_content[k].review = <<escape_latex(ReviewError)>>
                 /\ latex_content[k].bugs = <<escape_latex(BugError)>>

\* C7: the engines are called in the order calculate_code_metrics,
\* add_docstrings, review_code, predict_bugs for one file after the other
\* in the order of the resolved list, and no engine is called before
\* input resolution has produced a non-empty list.
EngineOrder ==
    <<"calculate_code_metrics", "add_docstrings", "review_code",
      "predict_bugs">>

C7_EngineOrder ==
    /\ log # <<>> => (python_files # <<>> /\ pc \notin {"start", "resolve"})
    /\ \A k \in 1..Len(log) :
          /\ log[k].engine = EngineOrder[((k - 1) % 4) + 1]
          /\ log[k].path
                = python_files[(((k - 1) \div 4) % Len(python_files)) + 1]

C7_Witness ==
    /\ Returned
    /\ phase = "primary"
    /\ Len(python_files) = MaxFiles
    /\ Len(log) = 4 * MaxFiles

\* C8: review_code and predict_bugs return a non-empty list that is the
\* findings, or the one sentinel, or the one error entry; the error entry
\* is returned exactly when the file cannot be read or parsed or the model
\* call raises, and the sentinel only when the analysis ran through.
ListShape(list, sentinel, error, kinds) ==
    /\ list # <<>>
    /\ \/ list = <<sentinel>>
       \/ list = <<error>>
       \/ \A k \in 1..Len(list) : list[k].kind \in kinds

C8_FindingsListShape ==
    /\ called = "review_code" =>
          /\ ListShape(comments, NoIssues, ReviewError,
                       {"unused_arguments", "too_long", "quality_issues"})
          /\ comments = <<ReviewError>>
                <=> (source.status # "ok" \/ model_outcome < 0)
    /\ called = "predict_bugs" =>
          /\ ListShape(bugs, NoBugs, BugError,
                       {"infinite_loop", "unsafe_call", "division_by_zero"})
          /\ bugs = <<BugError>> <=> source.status # "ok"

C8_Witness ==
    /\ called = "review_code"
    /\ source.status = "ok"
    /\ model_outcome >= 0
    /\ comments = <<NoIssues>>

\* The unused-parameter and excessive-length entries of a review result,
\* and the other entries.
RulePart(list) ==
    SelectSeq(list, LAMBDA c : c.kind \in {"unused_arguments", "too_long"})
OtherPart(list) ==
    SelectSeq(list, LAMBDA c : c.kind \notin {"unused_arguments", "too_long"})

\* C9 as stated: for a parseable file the rule-based findings in the result
\* of review_code are the same whatever the model does (score at most 0.7,
\* score above 0.7, or a failing call), and besides them the result holds
\* at most one further entry.
C9_RuleFindingsWhateverTheModel ==
    (called = "review_code" /\ source.status = "ok") =>
        /\ \A m \in ModelOutcomes :
              RulePart(comments) = RulePart(review_code(source, m, hashSeed))
        /\ comments = RulePart(comments) \o OtherPart(comments)
        /\ Len(OtherPart(comments)) <= 1

\* C9 amended: the rule-based findings are the same in every run in which
\* the model call returns a score, the score only adding or omitting the
\* one 'potential quality issues' entry after them (the sentinel standing
\* in for an empty result); when the model call raises, the result is the
\* single error entry and holds no rule-based finding.
C9_RuleFindingsWhateverTheScore ==
    (called = "review_code" /\ source.status = "ok") =>
        IF model_outcome < 0
        THEN comments = <<ReviewError>>
        ELSE /\ \A m \in ModelOutcomes :
                   m >= 0 => RulePart(comments)
                               = RulePart(review_code(source, m, hashSeed))
             /\ comments = RulePart(comments) \o OtherPart(comments)
             /\ OtherPart(comments) \in
                   {<<>>, <<QualityIssues>>, <<NoIssues>>}
             /\ QualityIssues \in Range(comments)
                   <=> model_outcome > ScoreThreshold

C9_Witness ==
    /\ called = "review_code"
    /\ model_outcome > ScoreThreshold
    /\ Len(RulePart(comments)) = 2
    /\ OtherPart(comments) = <<QualityIssues>>

\* C10: after a successful add_docstrings every function or class
\* definition of the file that had no documentation has a generated block
\* as its first body statement, and every definition that had
\* documentation is unchanged, as is everything in its body.
IsDefinition(n) == n.type \in {"FunctionDef", "ClassDef"}

C10_EveryDefinitionDocumented ==
    (called = "add_docstrings" /\ docstrings.ok) =>
        LET before == source.tree
            after == docstrings.out.tree
        IN  /\ Len(after) = Len(before)
            /\ \A k \in 1..Len(before) :
                  IsDefinition(before[k]) =>
                     IF NoDocstring(before[k])
                     THEN after[k].doc = "generated"
                     ELSE \A j \in Range(WalkNode(before, k)) :
                             after[j] = before[j]

\* C11: add_docstrings run on the output of a successful add_docstrings run
\* changes nothing: every definition the first run documented carries its
\* generated block when the second run reads it, the second run inserts no
\* further block, and the text it writes is the text it read.
C11_SecondRunChangesNothing ==
    (called = "add_docstrings_again" /\ again.ok) =>
        LET before == source.tree
            first == docstrings.out.tree
            second == again.out.tree
        IN  /\ again.out = docstrings.out
            /\ \A k \in 1..Len(before) :
                  (before[k].doc # "generated" /\ first[k].doc = "generated")
                     => /\ second[k].doc = "generated"
                        /\ second[k].pad = first[k].pad

C11_Witness ==
    /\ called = "add_docstrings_again"
    /\ again.ok
    /\ Len(source.tree) = MaxNodes
    /\ \E k \in 1..Len(source.tree) :
          /\ source.tree[k].doc = "empty"
          /\ docstrings.out.tree[k].doc = "generated"
    /\ docstrings.out # source

\* C12: when add_docstrings fails because the input cannot be read or
\* cannot be parsed, it returns False and the output path holds what it
\* held before the call: it is neither created nor modified nor emptied.
C12_FailedInputLeavesOutput ==
    (called = "add_docstrings" /\ source.status # "ok") =>
        /\ ~docstrings.ok
        /\ docstrings.out = output_before

C12_Witness ==
    /\ called = "add_docstrings"
    /\ source = BadSource
    /\ output_before = BadSource
    /\ ~docstrings.ok
    /\ docstrings.out = BadSource

\* The nodes of the subtree of node d, by the chain of parents.
RECURSIVE Ancestors(_, _)
Ancestors(t, j) ==
    IF t[j].parent = 0 THEN {}
    ELSE {t[j].parent} \cup Ancestors(t, t[j].parent)

Subtree(t, d) == {j \in 1..Len(t) : j = d \/ d \in Ancestors(t, j)}

FunctionDefs(t) == {d \in 1..Len(t) : t[d].type = "FunctionDef"}

\* The entries of a findings list of one kind about one function.
EntriesAbout(list, kind, f) ==
    SelectSeq(list, LAMBDA c : c.kind = kind /\ c.func = f)

\* review_code returned findings: the file parsed and the model call
\* returned a score (otherwise the result is the one error entry, C8).
ReviewRan ==
    called = "review_code" /\ source.status = "ok" /\ model_outcome >= 0

\* The declared parameters no Name node of the function's subtree refers to.
Unreferenced(t, d) ==
    t[d].args \ {t[j].id : j \in {k \in Subtree(t, d) : t[k].type = "Name"}}

DirectStatements(t, d) ==
    (IF t[d].doc = "none" THEN 0 ELSE 1) + t[d].pad
        + Cardinality({j \in 1..Len(t) : t[j].parent = d})

Count(list, e) == Len(SelectSeq(list, LAMBDA c : c = e))

\* The nodes of type ty with identifier x that start on line l.
NodesAt(t, ty, x, l) ==
    {d \in 1..Len(t) : t[d].type = ty /\ t[d].id = x /\ LineOf(t, d) = l}

BugsRan == called = "predict_bugs" /\ source.status = "ok"

\* C15: for every while loop whose test is the constant True, at any depth
\* and whatever its body holds, a break included, the result of
\* predict_bugs holds the infinite-loop finding with the loop's line number;
\* for a while loop with another test it holds no infinite-loop finding of
\* that line; there are as many such findings as while-True loops.
C15_InfiniteLoopFinding ==
    BugsRan =>
        LET t == source.tree
            loops == {d \in 1..Len(t) : t[d].type = "While"}
        IN  /\ \A d \in loops :
                  Count(bugs, InfiniteLoop(LineOf(t, d)))
                     = IF t[d].id = "True" THEN 1 ELSE 0
            /\ Len(SelectSeq(bugs, LAMBDA c : c.kind = "infinite_loop"))
                  = Cardinality({d \in loops : t[d].id = "True"})

\* A while-True loop inside another compound statement, with a break in its
\* body, is reported.
C15_Witness ==
    /\ BugsRan
    /\ \E d, b \in 1..Len(source.tree) :
          /\ source.tree[d].type = "While"
          /\ source.tree[d].id = "True"
          /\ source.tree[d].parent # 0
          /\ source.tree[b].type = "Break"
          /\ source.tree[b].parent = d
          /\ InfiniteLoop(LineOf(source.tree, d)) \in Range(bugs)

\* C16: on a parseable file the findings of predict_bugs correspond one to
\* one to the matching nodes: per line, as many unsafe-call findings naming
\* eval (exec) as calls of the bare name eval (exec) on that line, as many
\* division findings as divisions by the literal zero, as many loop
\* findings as while-True loops, and nothing else; findings of one line are
\* neither merged nor dropped; a division by a variable gives none.
C16_OneFindingPerNode ==
    BugsRan =>
        LET t == source.tree
            matching ==
                {d \in 1..Len(t) :
                    \/ t[d].type = "While" /\ t[d].id = "True"
                    \/ t[d].type = "Call" /\ t[d].id \in {"eval", "exec"}
                    \/ t[d].type = "BinOp" /\ t[d].id = "zero"}
        IN  /\ \A l \in 1..Len(t) :
                  /\ Count(bugs, InfiniteLoop(l))
                        = Cardinality(NodesAt(t, "While", "True", l))
                  /\ \A f \in {"eval", "exec"} :
                        Count(bugs, UnsafeCall(f, l))
                           = Cardinality(NodesAt(t, "Call", f, l))
                  /\ Count(bugs, DivisionByZero(l))
                        = Cardinality(NodesAt(t, "BinOp", "zero", l))
            /\ IF matching = {} THEN bugs = <<NoBugs>>
               ELSE Len(bugs) = Cardinality(matching)

\* eval(x); eval(y) on one line: two equal findings.
C16_Witness ==
    /\ BugsRan
    /\ Len(bugs) = 2
    /\ bugs[1] = bugs[2]
    /\ bugs[1].kind = "unsafe_call"

MetricsRan == called = "calculate_code_metrics"

Branching(t) ==
    {d \in 1..Len(t) : t[d].type \in {"If", "For", "While", "Try"}}

\* The function definitions that enclose node d.
Enclosing(t, d) == Ancestors(t, d) \cap FunctionDefs(t)

\* C17: for a parseable file complexity is 1 plus, over every function
\* definition at any depth, the number of if, for, while and try nodes in
\* its subtree: a branching node counts once for each function definition
\* that encloses it and not at all outside every function; function_count
\* and class_count are the numbers of definitions at any depth, so a file
\* without functions and classes has 0, 0 and complexity 1.
C17_Complexity ==
    (MetricsRan /\ source.status = "ok") =>
        LET t == source.tree
        IN  /\ code_metrics.complexity
                  = 1 + Sum([d \in 1..Len(t) |->
                               IF d \in Branching(t)
                               THEN Cardinality(Enclosing(t, d)) ELSE 0])
            /\ code_metrics.function_count = Cardinality(FunctionDefs(t))
            /\ code_metrics.class_count
                  = Cardinality({d \in 1..Len(t) : t[d].type = "ClassDef"})
            /\ (\A d \in 1..Len(t) : ~IsDefinition(t[d])) =>
                  /\ code_metrics.function_count = 0
                  /\ code_metrics.class_count = 0
                  /\ code_metrics.complexity = 1

\* A branching node inside a function nested in a function counts twice.
C17_Witness ==
    /\ MetricsRan
    /\ source.status = "ok"
    /\ \E d \in Branching(source.tree) :
          Cardinality(Enclosing(source.tree, d)) = 2
    /\ code_metrics.complexity = 3

\* C18: calculate_code_metrics returns the four-field aggregate whatever
\* the file: all four fields 0 when the file cannot be read or parsed,
\* complexity at least 1 otherwise, so complexity is 0 exactly when the
\* analysis failed.
C18_ZeroMetricsOnFailure ==
    MetricsRan =>
        /\ DOMAIN code_metrics
              = {"line_count", "function_count", "class_count", "complexity"}
        /\ source.status # "ok" => code_metrics = Metrics(0, 0, 0, 0)
        /\ source.status = "ok" => code_metrics.complexity >= 1
        /\ code_metrics.complexity = 0 <=> source.status # "ok"

C18_Witness ==
    /\ MetricsRan
    /\ source.status = "syntax_error"
    /\ code_metrics = Metrics(0, 0, 0, 0)

\* What a reader of the LaTeX text recovers from it, left to right: a
\* character that is not special stands for itself, a backslash starts the
\* replacement of one special character; anything else is no escaped text
\* (the result then ends with the mark "").
IsPrefix(p, e) == Len(p) <= Len(e) /\ SubSeq(e, 1, Len(p)) = p

RECURSIVE Unescape(_)
Unescape(e) ==
    IF e = <<>> THEN <<>>
    ELSE IF Head(e) \notin Range(SpecialChars)
    THEN <<Head(e)>> \o Unescape(Tail(e))
    ELSE LET m == {c \in Range(SpecialChars) :
                      IsPrefix(latex_special_chars(c), e)}
         IN  IF m = {} THEN <<"">>
             ELSE LET c == CHOOSE x \in m : TRUE
                      rest == SubSeq(e, Len(latex_special_chars(c)) + 1,
                                     Len(e))
                  IN  <<c>> \o Unescape(rest)

\* The number of backslashes of an escaped text: one per special character
\* of the text when no replacement is escaped again.
Backslashes(e) == Cardinality({k \in 1..Len(e) : e[k] = "\\"})

\* e is the escape_latex image of the text name.
IsEscapeOf(e, name) ==
    /\ Backslashes(e)
          = Cardinality({k \in 1..Len(name) : name[k] \in Range(SpecialChars)})
    /\ Unescape(e) = name

\* x is the escape_latex image of a text that is not itself such an image.
EscapedOnce(x) ==
    DOMAIN x = {"escaped"} /\ DOMAIN x.escaped # {"escaped"}

\* C19: in the LaTeX document every inserted text is the escape_latex image
\* of the text, escaped once: the upload's file name in the title and in
\* the overview, each file's base name, each listing or placeholder, each
\* review finding and each bug finding; escape_latex has 13 special
\* characters and replaces each occurrence in one pass, so the escaped file
\* name of the complete document reads back, replacement by replacement, as
\* the file name and holds one backslash per special character.
C19_EveryInsertionEscapedOnce ==
    /\ Cardinality(Range(SpecialChars)) = 13
    /\ (python_files # <<>> /\ pc # "resolve") => latex_header # <<>>
    /\ pc = "write_latex" =>
          /\ IsEscapeOf(latex_header.title, FileName)
          /\ IsEscapeOf(latex_header.overview, FileName)
    /\ \A k \in 1..Len(latex_content) :
          LET sec == latex_content[k]
          IN  /\ sec.heading = [escaped |-> sec.path.base]
              /\ EscapedOnce(sec.listing)
              /\ "status" \in DOMAIN sec.listing.escaped
              /\ \A list \in {sec.review, sec.bugs} :
                    /\ list # <<>>
                    /\ \A j \in 1..Len(list) :
                          /\ EscapedOnce(list[j])
                          /\ "kind" \in DOMAIN list[j].escaped

\* A report on an upload whose name holds all 13 special characters.
C19_Witness ==
    /\ pc = "write_latex"
    /\ Len(latex_content) = MaxFiles
    /\ \A c \in Range(SpecialChars) : c \in Range(file_stem)
    /\ latex_header.title # FileName
    /\ IsEscapeOf(latex_header.title, FileName)

\* C20: in every front end an upload larger than the configured maximum is
\* answered with the size-exceeded message, nothing is written or
\* extracted and no engine or model is called for it; an upload of exactly
\* the maximum is not refused for its size.
C20_OversizeRejected ==
    ui # "uploaded" =>
        /\ uploaded_file.size > max_file_size =>
              /\ shown = SizeExceeded
              /\ stored = {}
              /\ invoked = {}
        /\ uploaded_file.size <= max_file_size => shown # SizeExceeded

\* What the upload holds at a resolved path.
OriginalOf(path) ==
    (CHOOSE m \in Range(upload.members) : m.path = path).content

\* The listings a section may hold for a file: the synthesizer's output for
\* that file's own text, or a placeholder.
OwnListings(path) ==
    LET r == add_docstrings(OriginalOf(path), NoFile, "ok")
        own == IF r.ok THEN {r.out} ELSE {}
    IN  own \cup {NoDocstringsGenerated, FailedToGenerate}
        \cup {escape_latex(c) : c \in own \cup {NoDocstringsGenerated}}

\* C22: within one batch, the listing of a file's section is the
\* synthesizer's output for that same file or a placeholder, and the files
\* still to be analysed hold what the upload held: no doc_<name> output has
\* been written over them.
C22_FilesDoNotInterfere ==
    /\ \A k \in 1..Len(latex_content) :
          latex_content[k].listing \in OwnListings(latex_content[k].path)
    /\ \A k \in 1..Len(text_content) :
          text_content[k].listing \in OwnListings(text_content[k].path)
    /\ pc \in {"metrics", "docstrings", "review", "bugs"} =>
          \A k \in i..Len(LoopFiles) :
             Read(files, LoopFiles[k]) = OriginalOf(LoopFiles[k])

\* The sections of the returned artifact.
ReturnedSections ==
    IF result.tag = "pdf" THEN latex_content ELSE text_content

\* C23: a success result is returned only for a non-empty resolved file
\* list, and the returned artifact holds one analysis section per resolved
\* file, in the order of the list.
C23_SuccessHasSections ==
    (pc = "done" /\ result.ok) =>
        /\ python_files # <<>>
        /\ Len(ReturnedSections) = Len(python_files)
        /\ \A k \in 1..Len(python_files) :
              ReturnedSections[k].path = python_files[k]

\* C24: no exception leaves generate_project_report, whichever step fails.
C24_NoExceptionEscapes == pc # "raised"

\* C25: whenever generate_project_report has returned after its temporary
\* directory was set up (primary success, fallback success or failure,
\* input-resolution failure, markup-write failure), the directory has been
\* removed, and with it what was extracted or written there.
C25_TempDirRemovedOnReturn ==
    (pc = "done" /\ result # TempDirFailed) =>
        /\ temp_dir = "removed"
        /\ \A p \in DOMAIN files : p.area # "temp"

\* C21: two interleaved report requests on one output directory keep their
\* files apart: while a request analyses its saved input the file is the
\* one it saved, the markup file it compiles is the one it wrote, its
\* section is derived from its own upload only, and the artifact handed
\* back to it was written by it from its own upload.
C21_RequestsScoped ==
    \A r \in Requests :
       /\ request[r].pc \in {"report", "metrics", "docstrings", "listing",
                              "review", "bugs"} =>
             /\ InputName \in DOMAIN output_dir
             /\ output_dir[InputName].by = r
       /\ request[r].pc = "compile" => output_dir[LatexName].by = r
       /\ request[r].section \subseteq {r}
       /\ \A c \in request[r].delivered : c.by = r /\ c.from \subseteq {r}

====
